---- MODULE Spec2Model ----
(***************************************************************************)
(* A model of seafileapi/repo.py: the Repo handle (one remote Seafile      *)
(* library) and RepoRevision.                                              *)
(*                                                                         *)
(* Strings are sequences of atoms.  An atom is one character ("/", "a",    *)
(* the double quote, the space, the line feed) or a run of characters in   *)
(* which none of the characters the code looks at occurs ("https:",        *)
(* "host", a literal of the source such as "/api2/repos/").                *)
(*                                                                         *)
(* The transport client is not part of the module under study: every       *)
(* client.get / client.post / client.delete either raises ClientHttpError  *)
(* with a status code or returns a response, and which of the two happens  *)
(* is chosen by the environment.  A method that talks to the service takes *)
(* the response(s) the client would give as extra parameters, and returns  *)
(* an outcome: the object's fields afterwards, the exception raised (or    *)
(* none), the value returned, the transport calls issued, in order, and    *)
(* the Repo methods it invoked on the way, in order.                       *)
(***************************************************************************)
EXTENDS Naturals, Sequences, FiniteSets, TLC

VARIABLES repo, constructed, pc, op, resps, out

vars == <<repo, constructed, pc, op, resps, out>>

---------------------------------------------------------------------------
(* Bounds of the model.                                                    *)

\* longest path / filepath / returned file name, in atoms
MaxPathLen == 3
\* longest body of the upload-link response, in atoms
MaxTextLen == 3
\* most '/'-separated segments of a share link
MaxSegs == 6

---------------------------------------------------------------------------
(* Python values.                                                          *)

\* None, where a string is expected (dict.get of a missing key)
NoneValue == <<"None">>

\* the value of a method that returns nothing
None == [kind |-> "None"]

NoExc == [type |-> "none", arg |-> ""]

Exc(type, arg) == [type |-> type, arg |-> arg]

\* str.startswith
startswith(s, prefix) ==
    Len(s) >= Len(prefix) /\ SubSeq(s, 1, Len(prefix)) = prefix

\* str.endswith
endswith(s, suffix) ==
    Len(s) >= Len(suffix) /\ SubSeq(s, Len(s) - Len(suffix) + 1, Len(s)) = suffix

\* str.split(sep): the pieces between the occurrences of sep, empty ones kept
RECURSIVE split(_, _)
split(s, sep) ==
    IF \E i \in 1..Len(s) : s[i] = sep
    THEN LET i == CHOOSE k \in 1..Len(s) :
                      s[k] = sep /\ \A j \in 1..(k - 1) : s[j] # sep
         IN  <<SubSeq(s, 1, i - 1)>> \o split(SubSeq(s, i + 1, Len(s)), sep)
    ELSE <<s>>

\* urllib.parse.quote_plus: '/' is percent-encoded, the space becomes '+'
RECURSIVE quote_plus(_)
quote_plus(s) ==
    IF s = <<>> THEN <<>>
    ELSE LET c == Head(s)
         IN  <<(IF c = "/" THEN "%2F" ELSE IF c = " " THEN "+" ELSE c)>>
                 \o quote_plus(Tail(s))

\* urllib.parse.urlencode(dict(p=path))
urlencode(path) == <<"p", "=">> \o quote_plus(path)

\* posixpath.join(a, b)
posixpath_join(a, b) ==
    IF startswith(b, <<"/">>) THEN b
    ELSE IF a = <<>> \/ endswith(a, <<"/">>) THEN a \o b
    ELSE a \o <<"/">> \o b

\* io.BytesIO(initial_bytes): a stream over a bytes object; anything else
\* is a TypeError ("a bytes-like object is required, not 'str'")
BytesIO(initial_bytes) ==
    IF initial_bytes.type = "bytes"
    THEN [exc |-> NoExc, val |-> [type |-> "BytesIO", data |-> initial_bytes.data]]
    ELSE [exc |-> Exc("TypeError", "a bytes-like object is required"),
          val |-> initial_bytes]

\* re.match(r'"(.*)"', text): text starts with a double quote, and the
\* group is what lies between it and the last double quote of the first line
\* ('.' matches no line feed).  matched = FALSE is re.match returning None.
re_match_quoted(text) ==
    LET line == IF \E i \in 1..Len(text) : text[i] = "\n"
                THEN SubSeq(text, 1, (CHOOSE k \in 1..Len(text) :
                         text[k] = "\n" /\ \A j \in 1..(k - 1) : text[j] # "\n") - 1)
                ELSE text
        closing == {i \in 2..Len(line) : line[i] = "\""}
    IN  IF Len(line) >= 1 /\ line[1] = "\"" /\ closing # {}
        THEN [matched |-> TRUE,
              group1 |-> SubSeq(line, 2,
                           (CHOOSE i \in closing : \A j \in closing : j <= i) - 1)]
        ELSE [matched |-> FALSE, group1 |-> <<>>]

\* validators.url(value), on the strings of this model: a scheme, "//", a
\* host, then nothing or a '/'-led rest, and no white space anywhere
validators_url(value) ==
    /\ Len(value) >= 4
    /\ value[1] \in {"https:", "http:"}
    /\ value[2] = "/"
    /\ value[3] = "/"
    /\ value[4] = "host"
    /\ (Len(value) >= 5 => value[5] = "/")
    /\ \A i \in 1..Len(value) : value[i] \notin {" ", "\n"}

---------------------------------------------------------------------------
(* The transport client.                                                   *)

Response(ok, code, text, headers, json) ==
    [ok |-> ok, code |-> code, text |-> text, headers |-> headers, json |-> json]

Failure(code) == Response(FALSE, code, <<>>, <<>>, <<>>)

\* the exception client.get/post/delete raises for a response that is not ok
ClientHttpError(r) == Exc("ClientHttpError", r.code)

Call(method, url) == [method |-> method, url |-> url]

Invocation(m, arg) == [m |-> m, arg |-> arg]

\* what a method hands back to its caller
Outcome(self, exc, ret, calls, inv) ==
    [self |-> self, exc |-> exc, ret |-> ret, calls |-> calls, inv |-> inv]

---------------------------------------------------------------------------
(* class Repo                                                              *)

\* Repo.__init__
Repo(repo_id, repo_name, encrypted, owner, perm) ==
    [id |-> repo_id, name |-> repo_name, encrypted |-> encrypted,
     owner |-> owner, perm |-> perm]

\* from_json with the last two arguments of the constructor call exchanged
from_json_swapped(repo_json) ==
    IF \E k \in {"id", "name", "encrypted", "permission", "owner"} :
           k \notin DOMAIN repo_json
    THEN [exc |-> Exc("KeyError", "id"), ret |-> None, calls |-> <<>>]
    ELSE [exc |-> NoExc,
          ret |-> [kind |-> "Repo",
                   fields |-> Repo(repo_json.id, repo_json.name,
                                   repo_json.encrypted, repo_json.permission,
                                   repo_json.owner)],
          calls |-> <<>>]

\* Repo.from_json: the five subscripts in the order of the source, each a
\* KeyError on a missing key, then the constructor; the client is handed on
\* to the constructor and not used
from_json(repo_json) ==
    LET missing == {k \in {"id", "name", "encrypted", "permission", "owner"} :
                        k \notin DOMAIN repo_json}
        first == IF "id" \in missing THEN "id"
                 ELSE IF "name" \in missing THEN "name"
                 ELSE IF "encrypted" \in missing THEN "encrypted"
                 ELSE IF "permission" \in missing THEN "permission"
                 ELSE "owner"
    IN  IF missing # {}
        THEN [exc |-> Exc("KeyError", first), ret |-> None, calls |-> <<>>]
        ELSE [exc |-> NoExc,
              ret |-> [kind |-> "Repo",
                       fields |-> Repo(repo_json.id, repo_json.name,
                                       repo_json.encrypted, repo_json.owner,
                                       repo_json.permission)],
              calls |-> <<>>]

\* Repo.is_readonly
is_readonly(self) ==
    Outcome(self, NoExc,
            [kind |-> "bool", value |-> ~(\E i \in 1..Len(self.perm) : self.perm[i] = "w")],
            <<>>, <<>>)

\* seafileapi.utils.raise_does_not_exist(msg): a ClientHttpError with code
\* 404 raised by the decorated method becomes DoesNotExist(msg); every other
\* outcome passes
raise_does_not_exist(msg, o) ==
    IF o.exc = Exc("ClientHttpError", "404")
    THEN [o EXCEPT !.exc = Exc("DoesNotExist", msg)]
    ELSE o

\* the assertion dropped
path_is_rooted_unchecked(path) == TRUE

\* assert path.startswith('/')
path_is_rooted(path) == startswith(path, <<"/">>)

\* the body of Repo.get_file
get_file_body(self, path, r) ==
    IF path = NoneValue
    THEN Outcome(self, Exc("AttributeError", "startswith"), None, <<>>, <<>>)
    ELSE IF ~path_is_rooted(path)
    THEN Outcome(self, Exc("AssertionError", ""), None, <<>>, <<>>)
    ELSE LET url == <<"/api2/repos/">> \o self.id \o <<"/file/detail/">>
             query == <<"?">> \o urlencode(path)
             calls == <<Call("GET", url \o query)>>
         IN  IF ~r.ok THEN Outcome(self, ClientHttpError(r), None, calls, <<>>)
             ELSE IF "id" \notin DOMAIN r.json
             THEN Outcome(self, Exc("KeyError", "id"), None, calls, <<>>)
             ELSE IF "size" \notin DOMAIN r.json
             THEN Outcome(self, Exc("KeyError", "size"), None, calls, <<>>)
             ELSE Outcome(self, NoExc,
                          [kind |-> "SeafFile", repo |-> self, path |-> path,
                           id |-> r.json.id, size |-> r.json.size],
                          calls, <<>>)

\* Repo.get_file, decorated
get_file(self, path, r) ==
    raise_does_not_exist("The requested file does not exist",
                         get_file_body(self, path, r))

\* the body of Repo.get_dir
get_dir_body(self, path, r) ==
    IF path = NoneValue
    THEN Outcome(self, Exc("AttributeError", "startswith"), None, <<>>, <<>>)
    ELSE IF ~path_is_rooted(path)
    THEN Outcome(self, Exc("AssertionError", ""), None, <<>>, <<>>)
    ELSE LET url == <<"/api2/repos/">> \o self.id \o <<"/dir/">>
             query == IF path # <<"/">> THEN <<"?">> \o urlencode(path) ELSE <<>>
             calls == <<Call("GET", url \o query)>>
         IN  IF ~r.ok THEN Outcome(self, ClientHttpError(r), None, calls, <<>>)
             ELSE IF "oid" \notin DOMAIN r.headers
             THEN Outcome(self, Exc("KeyError", "oid"), None, calls, <<>>)
             ELSE Outcome(self, NoExc,
                          [kind |-> "SeafDir", repo |-> self, path |-> path,
                           id |-> r.headers.oid, entries |-> r.json],
                          calls, <<>>)

\* Repo.get_dir, decorated
get_dir(self, path, r) ==
    raise_does_not_exist("The requested dir does not exist",
                         get_dir_body(self, path, r))

\* an upload-link step that hands back an empty link when the GET failed
_get_upload_link_swallowing(self, r) ==
    LET url == <<"/api2/repos/">> \o self.id \o <<"/upload-link/">>
        calls == <<Call("GET", url)>>
    IN  IF ~r.ok THEN Outcome(self, NoExc, <<>>, calls, <<>>)
        ELSE Outcome(self, NoExc, re_match_quoted(r.text).group1, calls, <<>>)

\* Repo._get_upload_link: the GET, then group 1 of the match on the body;
\* with no match, re.match gives None and .group is an AttributeError
_get_upload_link(self, r) ==
    LET url == <<"/api2/repos/">> \o self.id \o <<"/upload-link/">>
        calls == <<Call("GET", url)>>
        m == re_match_quoted(r.text)
    IN  IF ~r.ok THEN Outcome(self, ClientHttpError(r), None, calls, <<>>)
        ELSE IF ~m.matched
        THEN Outcome(self, Exc("AttributeError", "group"), None, calls, <<>>)
        ELSE Outcome(self, NoExc, m.group1, calls, <<>>)

\* Repo.upload_file.  r1 answers the upload-link GET, r2 the POST, r3 the
\* file-detail GET of get_file.
upload_file(self, fileobj, filename, filepath, r1, r2, r3) ==
    LET wrapped == IF fileobj.type = "str" THEN BytesIO(fileobj)
                   ELSE [exc |-> NoExc, val |-> fileobj]
        link == _get_upload_link(self, r1)
        inv1 == <<Invocation("_get_upload_link", <<>>)>>
    IN  IF wrapped.exc # NoExc
        THEN Outcome(self, wrapped.exc, None, <<>>, <<>>)
        ELSE IF link.exc # NoExc
        THEN Outcome(self, link.exc, None, link.calls, inv1)
        ELSE
        LET upload_url == link.ret \o <<"?ret-json=1">>
            files == [file |-> <<filename, wrapped.val>>,
                      parent_dir |-> <<"/">>,
                      relative_path |-> filepath]
            post == [method |-> "POST", url |-> upload_url, files |-> files]
            calls2 == link.calls \o <<post>>
            json_response == r2.json
        IN  IF ~r2.ok
            THEN Outcome(self, ClientHttpError(r2), None, calls2, inv1)
            ELSE IF Len(json_response) = 0
            THEN Outcome(self, Exc("IndexError", "0"), None, calls2, inv1)
            ELSE IF "name" \notin DOMAIN json_response[1]
            THEN Outcome(self, Exc("KeyError", "name"), None, calls2, inv1)
            ELSE
            LET path == posixpath_join(<<"/">> \o filepath, json_response[1].name)
                f == get_file(self, path, r3)
            IN  Outcome(f.self, f.exc, f.ret, calls2 \o f.calls,
                        inv1 \o <<Invocation("get_file", path)>> \o f.inv)

\* Repo.get_share_link_details
get_share_link_details(self, token, r) ==
    LET url == <<"/api/v2.1/share-links/">> \o token \o <<"/">>
        calls == <<Call("GET", url)>>
    IN  IF ~r.ok THEN Outcome(self, ClientHttpError(r), None, calls, <<>>)
        ELSE Outcome(self, NoExc, r.json, calls, <<>>)

\* dict.get(key): the value, or None
dict_get_path(d) == IF "path" \in DOMAIN d THEN d.path ELSE NoneValue

\* the truth value of dict.get('is_dir')
dict_get_is_dir(d) == IF "is_dir" \in DOMAIN d THEN d.is_dir ELSE FALSE

\* the link counted, and not validated
share_link_accepted_unvalidated(share_link, splitted_link) ==
    Len(splitted_link) >= 5

\* validators.url(share_link) and len(splitted_link) >= 5
share_link_accepted(share_link, splitted_link) ==
    validators_url(share_link) /\ Len(splitted_link) >= 5

\* the segment before the token taken
share_link_token_off_by_one(splitted_link) == splitted_link[4]

\* token = splitted_link[4] (Python counts from 0)
share_link_token(splitted_link) == splitted_link[5]

\* Repo.get_element_by_share_link.  r1 answers the share-link detail GET,
\* r2 the GET of get_dir or get_file.
get_element_by_share_link(self, share_link, r1, r2) ==
    LET splitted_link == split(share_link, "/")
    IN  IF share_link_accepted(share_link, splitted_link)
        THEN LET token == share_link_token(splitted_link)
                 d == get_share_link_details(self, token, r1)
                 inv1 == <<Invocation("get_share_link_details", token)>>
             IN  IF d.exc # NoExc
                 THEN Outcome(d.self, d.exc, None, d.calls, inv1)
                 ELSE
                 LET share_link_details == d.ret
                     path == dict_get_path(share_link_details)
                     is_dir == dict_get_is_dir(share_link_details)
                     e == IF is_dir THEN get_dir(self, path, r2)
                          ELSE get_file(self, path, r2)
                     m == IF is_dir THEN "get_dir" ELSE "get_file"
                 IN  Outcome(e.self, e.exc, e.ret, d.calls \o e.calls,
                             inv1 \o <<Invocation(m, path)>> \o e.inv)
        ELSE Outcome(self, Exc("ValueError", "Invalid share link"), None, <<>>, <<>>)

\* a delete that tries again when the first DELETE failed
delete_retrying(self, r) ==
    LET c == Call("DELETE", <<"/api2/repos/">> \o self.id)
    IN  IF ~r.ok THEN Outcome(self, NoExc, None, <<c, c>>, <<>>)
        ELSE Outcome(self, NoExc, None, <<c>>, <<>>)

\* Repo.delete
delete(self, r) ==
    LET calls == <<Call("DELETE", <<"/api2/repos/">> \o self.id)>>
    IN  IF ~r.ok THEN Outcome(self, ClientHttpError(r), None, calls, <<>>)
        ELSE Outcome(self, NoExc, None, calls, <<>>)

\* Repo.list_history: pass
list_history(self) == Outcome(self, NoExc, None, <<>>, <<>>)

\* an update that stores the new name in the handle
update_in_place(self, name) ==
    Outcome([self EXCEPT !.name = name], NoExc, None, <<>>, <<>>)

\* Repo.update: pass
update(self, name) == Outcome(self, NoExc, None, <<>>, <<>>)

\* Repo.get_settings: pass
get_settings(self) == Outcome(self, NoExc, None, <<>>, <<>>)

\* Repo.restore: pass
restore(self, commit_id) == Outcome(self, NoExc, None, <<>>, <<>>)

\* the attributes an instance of Repo has: what __init__ sets but the client,
\* and the methods of the class
RepoAttributes ==
    {"id", "name", "encrypted", "owner", "perm",
     "from_json", "is_readonly", "get_file", "get_dir", "upload_file",
     "_get_upload_link", "get_share_link_details", "get_element_by_share_link",
     "delete", "list_history", "update", "get_settings", "restore"}

---------------------------------------------------------------------------
(* class RepoRevision                                                      *)

\* RepoRevision.__init__
RepoRevision(parent, commit_id) == [repo |-> parent, commit_id |-> commit_id]

\* repo.<attribute>(arg), for a call with one argument: the attribute is
\* looked up on the Repo first, and of its methods only restore takes one
\* positional argument with that meaning
Repo_call(self, attribute, arg) ==
    IF attribute \notin RepoAttributes
    THEN Outcome(self, Exc("AttributeError", attribute), None, <<>>, <<>>)
    ELSE IF attribute = "restore"
    THEN LET o == restore(self, arg)
         IN  [o EXCEPT !.inv = <<Invocation("restore", arg)>> \o o.inv]
    ELSE Outcome(self, Exc("TypeError", attribute), None, <<>>, <<>>)

\* RepoRevision.restore: self.repo.revert(self.commit_id)
RepoRevision_restore(self) == Repo_call(self.repo, "revert", self.commit_id)

---------------------------------------------------------------------------
(* The inputs of the operations, and the answers of the service.           *)

\* the strings over an alphabet, up to a length
Strs(alphabet, n) == UNION {[1..k -> alphabet] : k \in 0..n}

Min(a, b) == IF a <= b THEN a ELSE b

\* str.join, which the callers of the model use to write a share link
RECURSIVE join(_, _)
join(segs, sep) ==
    IF Len(segs) = 1 THEN segs[1]
    ELSE segs[1] \o <<sep>> \o join(Tail(segs), sep)

Paths == Strs({"/", "a"}, MaxPathLen)

\* the names the service gives an uploaded file: no '/' in them, and not empty
ReturnedNames == Strs({"a", "."}, MaxPathLen) \ {<<>>}

FileObjs ==
    {[type |-> t, data |-> <<"x">>] : t \in {"str", "bytes", "BytesIO"}}

FileNames == {<<"a", ".", "t">>}

Segments == {<<>>, <<"https:">>, <<"host">>, <<"t">>}

ShareLinks ==
    {join(segs, "/") : segs \in UNION {[1..k -> Segments] : k \in 1..MaxSegs}}

CommitIds == {<<"c1">>, <<"c2">>}

RepoJsons ==
    LET keys == {"id", "name", "encrypted", "permission", "owner"}
        value(k, i, e, p) ==
            IF k = "id" THEN i
            ELSE IF k = "name" THEN <<"lib">>
            ELSE IF k = "encrypted" THEN e
            ELSE IF k = "permission" THEN p
            ELSE <<"o">>
    IN  {[k \in D |-> value(k, i, e, p)] :
            D \in SUBSET keys, i \in {<<"r1">>, <<"r2">>}, e \in BOOLEAN,
            p \in {<<"r">>, <<"r", "w">>}}

\* the answer to a call that is never issued
NoResponse == Failure("none")

Failures == {Failure("404"), Failure("500")}

FileResponses ==
    Failures \cup
    {Response(TRUE, "200", <<>>, <<>>, j) :
        j \in {[id |-> "f1", size |-> 1], [id |-> "f1"], [size |-> 1]}}

DirResponses ==
    Failures \cup
    {Response(TRUE, "200", <<>>, h, <<>>) : h \in {[oid |-> "d1"], <<>>}}

LinkResponses ==
    Failures \cup
    {Response(TRUE, "200", t, <<>>, <<>>) : t \in Strs({"\"", "u", "\n"}, MaxTextLen)}

PostResponses ==
    Failures \cup
    {Response(TRUE, "200", <<>>, <<>>, j) :
        j \in {<<>>, << <<>> >>} \cup {<<[name |-> n]>> : n \in ReturnedNames}}

DetailResponses ==
    Failures \cup
    {Response(TRUE, "200", <<>>, <<>>, j) :
        j \in {[path |-> p, is_dir |-> b] : p \in Paths, b \in BOOLEAN}
              \cup {[path |-> p] : p \in Paths}
              \cup {[is_dir |-> b] : b \in BOOLEAN}
              \cup {<<>>}}

DeleteResponses == Failures \cup {Response(TRUE, "200", <<>>, <<>>, <<>>)}

\* what the service may answer to a call, by its method and endpoint
ResponsesFor(call) ==
    IF call.method = "POST" THEN PostResponses
    ELSE IF call.method = "DELETE" THEN DeleteResponses
    ELSE IF \E i \in 1..Len(call.url) : call.url[i] = "/file/detail/" THEN FileResponses
    ELSE IF \E i \in 1..Len(call.url) : call.url[i] = "/dir/" THEN DirResponses
    ELSE IF \E i \in 1..Len(call.url) : call.url[i] = "/upload-link/" THEN LinkResponses
    ELSE DetailResponses

\* the answers to the n-th call of an operation, when it issues one
AnswersTo(calls, n) ==
    IF Len(calls) < n THEN {NoResponse} ELSE ResponsesFor(calls[n])

---------------------------------------------------------------------------
(* The state machine: a caller holds one Repo and invokes one operation at *)
(* a time; the operation runs to its return or its exception (out), with   *)
(* the answers the service gave to its calls (resps); the caller then      *)
(* drops the result and is free to invoke the next.                        *)

Idle == [name |-> "none"]

NoOutcome == [exc |-> NoExc, ret |-> None, calls |-> <<>>, inv |-> <<>>]

Repos ==
    {Repo(<<"r1">>, <<"lib">>, FALSE, <<"o">>, <<"r", "w">>),
     Repo(<<"r2">>, <<"docs">>, TRUE, <<"u">>, <<"r">>)}

Init ==
    /\ repo \in Repos
    /\ constructed = repo
    /\ pc = "idle"
    /\ op = Idle
    /\ resps = <<>>
    /\ out = NoOutcome

\* the operation `invoked` has run with outcome o, the service answering rs
Finish(invoked, o, rs) ==
    /\ pc = "idle"
    /\ pc' = "returned"
    /\ op' = invoked
    /\ repo' = o.self
    /\ out' = [exc |-> o.exc, ret |-> o.ret, calls |-> o.calls, inv |-> o.inv]
    /\ resps' = SubSeq(rs, 1, Min(Len(o.calls), Len(rs)))
    /\ UNCHANGED constructed

FromJson ==
    /\ pc = "idle"
    /\ \E repo_json \in RepoJsons :
        LET o == from_json(repo_json)
        IN  Finish([name |-> "from_json", repo_json |-> repo_json],
                   Outcome(repo, o.exc, o.ret, o.calls, <<>>), <<>>)

IsReadonly ==
    /\ pc = "idle"
    /\ Finish([name |-> "is_readonly"], is_readonly(repo), <<>>)

GetFile ==
    /\ pc = "idle"
    /\ \E path \in Paths :
        \E r1 \in AnswersTo(get_file(repo, path, NoResponse).calls, 1) :
            Finish([name |-> "get_file", path |-> path],
                   get_file(repo, path, r1), <<r1>>)

GetDir ==
    /\ pc = "idle"
    /\ \E path \in Paths :
        \E r1 \in AnswersTo(get_dir(repo, path, NoResponse).calls, 1) :
            Finish([name |-> "get_dir", path |-> path],
                   get_dir(repo, path, r1), <<r1>>)

UploadFile ==
    /\ pc = "idle"
    /\ \E fileobj \in FileObjs, filename \in FileNames, filepath \in Paths :
        \E r1 \in AnswersTo(upload_file(repo, fileobj, filename, filepath,
                                        NoResponse, NoResponse, NoResponse).calls, 1) :
          \E r2 \in AnswersTo(upload_file(repo, fileobj, filename, filepath,
                                          r1, NoResponse, NoResponse).calls, 2) :
            \E r3 \in AnswersTo(upload_file(repo, fileobj, filename, filepath,
                                            r1, r2, NoResponse).calls, 3) :
                Finish([name |-> "upload_file", fileobj |-> fileobj,
                        filename |-> filename, filepath |-> filepath],
                       upload_file(repo, fileobj, filename, filepath, r1, r2, r3),
                       <<r1, r2, r3>>)

GetShareLinkDetails ==
    /\ pc = "idle"
    /\ \E token \in Segments :
        \E r1 \in AnswersTo(get_share_link_details(repo, token, NoResponse).calls, 1) :
            Finish([name |-> "get_share_link_details", token |-> token],
                   get_share_link_details(repo, token, r1), <<r1>>)

GetElementByShareLink ==
    /\ pc = "idle"
    /\ \E share_link \in ShareLinks :
        \E r1 \in AnswersTo(get_element_by_share_link(repo, share_link,
                                                      NoResponse, NoResponse).calls, 1) :
          \E r2 \in AnswersTo(get_element_by_share_link(repo, share_link,
                                                        r1, NoResponse).calls, 2) :
                Finish([name |-> "get_element_by_share_link",
                        share_link |-> share_link],
                       get_element_by_share_link(repo, share_link, r1, r2),
                       <<r1, r2>>)

Delete ==
    /\ pc = "idle"
    /\ \E r1 \in AnswersTo(delete(repo, NoResponse).calls, 1) :
            Finish([name |-> "delete"], delete(repo, r1), <<r1>>)

ListHistory ==
    /\ pc = "idle"
    /\ Finish([name |-> "list_history"], list_history(repo), <<>>)

Update ==
    /\ pc = "idle"
    /\ \E name \in {<<"lib">>, <<"new">>} :
            Finish([name |-> "update", new_name |-> name], update(repo, name), <<>>)

GetSettings ==
    /\ pc = "idle"
    /\ Finish([name |-> "get_settings"], get_settings(repo), <<>>)

Restore ==
    /\ pc = "idle"
    /\ \E commit_id \in CommitIds :
            Finish([name |-> "restore", commit_id |-> commit_id],
                   restore(repo, commit_id), <<>>)

RevisionRestore ==
    /\ pc = "idle"
    /\ \E commit_id \in CommitIds :
            Finish([name |-> "RepoRevision.restore", commit_id |-> commit_id],
                   RepoRevision_restore(RepoRevision(repo, commit_id)), <<>>)

\* the caller has the result and drops it
Return ==
    /\ pc = "returned"
    /\ pc' = "idle"
    /\ op' = Idle
    /\ out' = NoOutcome
    /\ resps' = <<>>
    /\ UNCHANGED <<repo, constructed>>

Next ==
    \/ FromJson
    \/ IsReadonly
    \/ GetFile
    \/ GetDir
    \/ UploadFile
    \/ GetShareLinkDetails
    \/ GetElementByShareLink
    \/ Delete
    \/ ListHistory
    \/ Update
    \/ GetSettings
    \/ Restore
    \/ RevisionRestore
    \/ Return

Spec == Init /\ [][Next]_vars

---------------------------------------------------------------------------
(* Properties.                                                             *)

\* operation `name` has run and its result is at hand
Returned(name) == pc = "returned" /\ op.name = name

\* C1: get_file(path) and get_dir(path), for a path that does not start
\* with '/', fail on the assertion (the InvalidArgument of the
\* specification) and issue no call on the transport client.
C1_UnrootedPathRejected ==
    (pc = "returned" /\ op.name \in {"get_file", "get_dir"}
        /\ ~startswith(op.path, <<"/">>))
    => (out.exc = Exc("AssertionError", "") /\ out.calls = <<>> /\ resps = <<>>)

C1_Witness ==
    /\ Returned("get_dir")
    /\ op.path = <<"a", "/">>
    /\ out.exc.type = "AssertionError"
    /\ out.calls = <<>>

\* the path upload_file hands to get_file, once it has done so
UploadedPath == out.inv[2].arg

\* C2: upload_file issues its calls in the order GET upload-link, POST to
\* the link with '?ret-json=1' appended, GET file detail; a step that fails
\* is the last one issued, its failure is the failure of upload_file, and no
\* call is issued twice.
C2_UploadOrder ==
    Returned("upload_file") =>
    LET c == out.calls
        n == Len(c)
    IN  /\ n <= 3
        /\ Len(resps) = n
        /\ n >= 1 => c[1] = Call("GET", <<"/api2/repos/">> \o repo.id \o <<"/upload-link/">>)
        /\ n >= 2 => /\ resps[1].ok
                     /\ re_match_quoted(resps[1].text).matched
                     /\ c[2].method = "POST"
                     /\ c[2].url = re_match_quoted(resps[1].text).group1 \o <<"?ret-json=1">>
        /\ n >= 3 => /\ resps[2].ok
                     /\ Len(resps[2].json) >= 1
                     /\ "name" \in DOMAIN resps[2].json[1]
                     /\ c[3] = Call("GET", <<"/api2/repos/">> \o repo.id
                                       \o <<"/file/detail/", "?">> \o urlencode(UploadedPath))
        /\ (n >= 1 /\ ~resps[1].ok) => (n = 1 /\ out.exc = ClientHttpError(resps[1]))
        /\ (n >= 2 /\ ~resps[2].ok) => (n = 2 /\ out.exc = ClientHttpError(resps[2]))
        /\ n = 3 => out.exc = get_file(repo, UploadedPath, resps[3]).exc
        /\ out.exc = NoExc => n = 3

C2_Witness ==
    /\ Returned("upload_file")
    /\ Len(out.calls) = 2
    /\ out.calls[2].method = "POST"
    /\ ~resps[2].ok
    /\ out.exc = Exc("ClientHttpError", "500")

\* the operations of Repo that talk to the service once
OneCallOps == {"get_file", "get_dir", "get_share_link_details", "delete"}

\* the operations of Repo that talk to the service in several steps
MultiStepOps == {"upload_file", "get_element_by_share_link"}

\* the operations of Repo that do not talk to the service
LocalOps ==
    {"from_json", "is_readonly", "list_history", "update", "get_settings", "restore"}

\* C3, as claimed: a successful operation that talks to the service performs
\* exactly one call, and a successful multi-step flow, upload_file among
\* them, exactly two.
C3_OneOrTwoCalls ==
    (pc = "returned" /\ out.exc = NoExc) =>
        /\ op.name \in OneCallOps => Len(out.calls) = 1
        /\ op.name \in MultiStepOps => Len(out.calls) = 2

\* C3, amended: a successful get_file, get_dir, get_share_link_details or
\* delete performs exactly one call, a successful get_element_by_share_link
\* exactly two, a successful upload_file exactly three (upload link, POST,
\* file detail), and from_json, is_readonly and the placeholders none.
C3_CallCounts ==
    (pc = "returned" /\ out.exc = NoExc) =>
        /\ op.name \in OneCallOps => Len(out.calls) = 1
        /\ op.name = "get_element_by_share_link" => Len(out.calls) = 2
        /\ op.name = "upload_file" =>
              (Len(out.calls) = 3
                 /\ <<out.calls[1].method, out.calls[2].method, out.calls[3].method>>
                        = <<"GET", "POST", "GET">>)
        /\ op.name \in LocalOps => Len(out.calls) = 0

C3_Witness ==
    /\ Returned("upload_file")
    /\ out.exc = NoExc
    /\ out.ret.kind = "SeafFile"
    /\ Len(out.calls) = 3

\* C4: when upload_file reaches the re-resolution, the path it hands to
\* get_file starts with exactly one '/', has '/' + filepath as its directory
\* part and the returned name as its last part, and the result is that of
\* get_file on it.
C4_ComposedPath ==
    (Returned("upload_file") /\ Len(out.inv) = 2) =>
    LET name == resps[2].json[1].name
        f == get_file(repo, UploadedPath, resps[3])
    IN  /\ startswith(UploadedPath, <<"/">>)
        /\ ~startswith(UploadedPath, <<"/", "/">>)
        /\ startswith(UploadedPath, <<"/">> \o op.filepath)
        /\ endswith(UploadedPath, name)
        /\ Len(UploadedPath) >= 1 + Len(op.filepath) + Len(name)
        /\ out.exc = f.exc
        /\ out.ret = f.ret

\* C5: upload_file takes a raw sequence or a stream: it raises no TypeError
\* of its own, and what the POST carries as the file is a stream.
C5_FileobjWrapped ==
    Returned("upload_file") =>
        /\ out.exc.type # "TypeError"
        /\ Len(out.calls) >= 2 => out.calls[2].files.file[2].type = "BytesIO"

\* C6: get_element_by_share_link, for a share link that is no well-formed
\* URL or has fewer than five '/'-separated segments, fails with
\* ValueError('Invalid share link') (the InvalidArgument of the
\* specification) before any transport call.
C6_InvalidShareLinkRejected ==
    (Returned("get_element_by_share_link")
        /\ (~validators_url(op.share_link) \/ Len(split(op.share_link, "/")) < 5))
    => (out.exc = Exc("ValueError", "Invalid share link")
          /\ out.calls = <<>> /\ out.inv = <<>>)

C6_Witness ==
    /\ Returned("get_element_by_share_link")
    /\ validators_url(op.share_link)
    /\ Len(split(op.share_link, "/")) = 4
    /\ out.exc = Exc("ValueError", "Invalid share link")

\* C7: get_element_by_share_link, for a valid share link, fetches the
\* details of the token at index 4 of the split link first, and then, when
\* that succeeded, invokes exactly one of get_dir (is_dir true) and get_file
\* (otherwise) on the details' path and ends as that invocation ends.
C7_ShareLinkDispatch ==
    (Returned("get_element_by_share_link")
        /\ validators_url(op.share_link) /\ Len(split(op.share_link, "/")) >= 5)
    =>
    LET token == split(op.share_link, "/")[5]
        detail == Call("GET", <<"/api/v2.1/share-links/">> \o token \o <<"/">>)
    IN  /\ Len(out.calls) >= 1
        /\ out.calls[1] = detail
        /\ out.inv[1] = Invocation("get_share_link_details", token)
        /\ ~resps[1].ok => (Len(out.inv) = 1 /\ out.calls = <<detail>>
                              /\ out.exc = ClientHttpError(resps[1]))
        /\ resps[1].ok =>
             LET d == resps[1].json
                 path == IF "path" \in DOMAIN d THEN d.path ELSE NoneValue
                 is_dir == "is_dir" \in DOMAIN d /\ d.is_dir
                 r2 == IF Len(resps) >= 2 THEN resps[2] ELSE NoResponse
                 e == IF is_dir THEN get_dir(repo, path, r2)
                      ELSE get_file(repo, path, r2)
             IN  /\ Len(out.inv) = 2
                 /\ out.inv[2] = Invocation(IF is_dir THEN "get_dir" ELSE "get_file", path)
                 /\ out.exc = e.exc
                 /\ out.ret = e.ret
                 /\ out.calls = <<detail>> \o e.calls

C7_Witness ==
    /\ Returned("get_element_by_share_link")
    /\ Len(out.calls) = 2
    /\ split(op.share_link, "/")[4] # split(op.share_link, "/")[5]
    /\ resps[1].json = [path |-> <<"/", "a">>, is_dir |-> TRUE]
    /\ out.exc = NoExc
    /\ out.ret.kind = "SeafDir"
    /\ out.ret.path = <<"/", "a">>
    /\ Len(out.calls) = 2

\* C8: from_json of an object that lacks one of id, name, encrypted,
\* permission, owner fails with KeyError (the MalformedResponse of the
\* specification), makes no Repo and issues no call; of an object that has
\* the five, it returns a Repo with exactly those values.
C8_FromJson ==
    Returned("from_json") =>
    LET j == op.repo_json
    IN  /\ out.calls = <<>>
        /\ resps = <<>>
        /\ IF {"id", "name", "encrypted", "permission", "owner"} \subseteq DOMAIN j
           THEN /\ out.exc = NoExc
                /\ out.ret = [kind |-> "Repo",
                              fields |-> [id |-> j.id, name |-> j.name,
                                          encrypted |-> j.encrypted,
                                          owner |-> j.owner,
                                          perm |-> j.permission]]
           ELSE /\ out.exc.type = "KeyError"
                /\ out.exc.arg \notin DOMAIN j
                /\ out.ret = None

C8_Witness ==
    /\ Returned("from_json")
    /\ DOMAIN op.repo_json = {"id", "name", "encrypted", "permission"}
    /\ out.exc = Exc("KeyError", "owner")
    /\ out.ret = None

\* C9: RepoRevision.restore() invokes the restore of its parent Repo exactly
\* once, with the revision's commit_id, and raises nothing when that
\* restore raises nothing.
C9_RevisionRestoreDelegates ==
    Returned("RepoRevision.restore") =>
        /\ out.inv = <<Invocation("restore", op.commit_id)>>
        /\ out.exc = NoExc

\* C10: whatever operations have run, and however they ended, the Repo's
\* id, name, encrypted, owner and perm are those given at construction.
C10_FieldsImmutable ==
    /\ repo.id = constructed.id
    /\ repo.name = constructed.name
    /\ repo.encrypted = constructed.encrypted
    /\ repo.owner = constructed.owner
    /\ repo.perm = constructed.perm

C10_Witness ==
    /\ Returned("update")
    /\ op.new_name # constructed.name
    /\ out.exc = NoExc
    /\ repo.name = constructed.name

====
